---- MODULE Spec2Model ----
(***************************************************************************)
(* Student attendance management backend: token authentication, role       *)
(* gates and the gated CRUD routes, as a state machine over the database   *)
(* tables.  One action per route handler; the login handler is split at    *)
(* its commit because other requests' transactions can commit between its *)
(* reads and its commit (no lock, no unique constraint on tokens.user_id). *)
(***************************************************************************)
EXTENDS Integers, FiniteSets, Sequences, TLC

VARIABLES users, tokens, departments, courses, students, attendance,
          nextId, now, pending, issued, superseded, last, proc

vars == <<users, tokens, departments, courses, students, attendance,
          nextId, now, pending, issued, superseded, last, proc>>

tables == <<users, departments, courses, students, attendance>>

-----------------------------------------------------------------------------
(* Bounds of the model *)

MaxTime == 2
MaxUserId == 2
MaxTokenId == 2
MaxDeptId == 1
MaxCourseId == 1
MaxStudentId == 1
MaxAttId == 2
MaxSessions == 2

(* Token lifetime.  The source configures 30 minutes; the model counts it  *)
(* in clock ticks and scales it down so that tokens expire within MaxTime. *)
ACCESS_TOKEN_EXPIRE_MINUTES == 1

(* Configuration: the signing secret the server holds *)
SECRET_KEY == "server"

ALGORITHM == "HS256"

(* os.getenv of a variable that is not set *)
None == "<None>"

(* The process: what os.getenv returned for the three settings, and        *)
(* whether the process is starting, serving requests or has crashed.       *)
Environments ==
    [SECRET_KEY : {SECRET_KEY, None}, ALGORITHM : {ALGORITHM, None},
     ACCESS_TOKEN_EXPIRE_MINUTES : {"1", None}]

Process(environ, state) ==
    [SECRET_KEY |-> environ.SECRET_KEY, ALGORITHM |-> environ.ALGORITHM,
     ACCESS_TOKEN_EXPIRE_MINUTES |-> environ.ACCESS_TOKEN_EXPIRE_MINUTES,
     state |-> state]

(* The handlers below model the process serving with its settings present *)
Configured ==
    /\ proc.state = "serving"
    /\ proc.SECRET_KEY # None
    /\ proc.ALGORITHM # None

-----------------------------------------------------------------------------
(* Input domains *)

Roles == {"admin", "teacher", "student"}
Usernames == {"admin", "bob"}
Emails == {"admin@example.com", "bob@example.com"}
FullNames == {"Admin User"}
NoPassword == "<none>"
Passwords == {"password123", "wrong"}
DeptNames == {"CS"}
CourseNames == {"algo"}
ClassNames == {"A"}
Semesters == {"S1"}
LectureHours == {3}
Unset == "<unset>"
Sessions == 1..MaxSessions

NULL == 0

-----------------------------------------------------------------------------
(* Credential hasher *)

hash_password(password) == <<"bcrypt", password>>

verify_password(password, hashed_password) == hashed_password = <<"bcrypt", password>>

-----------------------------------------------------------------------------
(* Tokens.  A token string is determined by its payload (the claims and    *)
(* the expiry in whole seconds) and by the key that signed it.             *)

NoToken == [user_id |-> 0, username |-> "", user_type |-> "", exp |-> 0, key |-> "none"]

Malformed == [user_id |-> 0, username |-> "", user_type |-> "", exp |-> 0, key |-> "malformed"]

Forged == [user_id |-> 1, username |-> "admin", user_type |-> "admin",
           exp |-> MaxTime + ACCESS_TOKEN_EXPIRE_MINUTES, key |-> "attacker"]

create_access_token(data, clock) ==
    [user_id |-> data.user_id, username |-> data.username, user_type |-> data.user_type,
     exp |-> clock + ACCESS_TOKEN_EXPIRE_MINUTES, key |-> SECRET_KEY]

(* jwt.decode with the exp claim not verified *)
JWTError_IgnoresExp(token, clock) == token.key # SECRET_KEY

(* jwt.decode: TRUE when it raises JWTError (bad structure, bad signature, *)
(* or exp in the past)                                                      *)
JWTError(token, clock) ==
    \/ token.key # SECRET_KEY
    \/ token.exp < clock

NoRow == [token_id |-> 0, access_token |-> NoToken, user_id |-> NULL, expires_at |-> 0]

NoUser == [id |-> 0, user_type |-> "", full_name |-> "", username |-> "", email |-> "",
           password_hash |-> <<"bcrypt", NoPassword>>, submitted_by |-> 0]

Response(stage, status, detail, user) ==
    [stage |-> stage, status |-> status, detail |-> detail, user |-> user]

(* db.query(Token).filter(Token.user_id == user_id).first(): any of the rows *)
FirstToken(rows, user_id) ==
    LET rs == {r \in rows : r.user_id = user_id /\ user_id # NULL}
    IN  IF rs = {} THEN {NoRow} ELSE rs

(* verify_token telling a superseded token apart in its response *)
verify_token_NamesTheCheck(token, access, clock) ==
    IF JWTError(token, clock)
    THEN Response("verify_token", 401, "Invalid or expired Token", NoUser)
    ELSE IF token.user_id = 0 \/ token.username = "" \/ token.user_type = ""
    THEN Response("verify_token", 401, "Invalid Token", NoUser)
    ELSE IF access = NoRow
    THEN Response("verify_token", 500, "Internal Server Error", NoUser)
    ELSE IF access.access_token # token
    THEN Response("verify_token", 401, "Token superseded", NoUser)
    ELSE IF access.expires_at < clock
    THEN Response("verify_token", 401, "Invalid or expired Token", NoUser)
    ELSE Response("verify_token", 200, "", NoUser)

verify_token(token, access, clock) ==
    IF JWTError(token, clock)
    THEN Response("verify_token", 401, "Invalid or expired Token", NoUser)
    ELSE IF token.user_id = 0 \/ token.username = "" \/ token.user_type = ""
    THEN Response("verify_token", 401, "Invalid Token", NoUser)
    ELSE IF access = NoRow
    THEN Response("verify_token", 500, "Internal Server Error", NoUser)
    ELSE IF access.access_token # token \/ access.expires_at < clock
    THEN Response("verify_token", 401, "Invalid or expired Token", NoUser)
    ELSE Response("verify_token", 200, "", NoUser)

(* get_current_user taking the role from the claims of the token *)
get_current_user_RoleFromClaims(token, access, userRows, clock) ==
    LET payload == verify_token(token, access, clock)
        found == {u \in userRows : u.id = token.user_id}
    IN  IF payload.status # 200 THEN payload
        ELSE IF found = {}
        THEN Response("get_current_user", 403, "Invalid User", NoUser)
        ELSE Response("get_current_user", 200, "",
                      [(CHOOSE u \in found : TRUE) EXCEPT !.user_type = token.user_type])

get_current_user(token, access, userRows, clock) ==
    LET payload == verify_token(token, access, clock)
        found == {u \in userRows : u.id = token.user_id}
    IN  IF payload.status # 200 THEN payload
        ELSE IF found = {}
        THEN Response("get_current_user", 403, "Invalid User", NoUser)
        ELSE Response("get_current_user", 200, "", CHOOSE u \in found : TRUE)

(* is_admin letting a teacher through *)
is_admin_AllowsTeacher(user) ==
    IF user.user_type \notin {"admin", "teacher"}
    THEN Response("is_admin", 403, "Unauthorized Access!", NoUser)
    ELSE Response("is_admin", 200, "", user)

is_admin(user) ==
    IF user.user_type # "admin"
    THEN Response("is_admin", 403, "Unauthorized Access!", NoUser)
    ELSE Response("is_admin", 200, "", user)

is_admin_or_teacher(user) ==
    IF user.user_type \notin {"admin", "teacher"}
    THEN Response("is_admin_or_teacher", 401, "Unauthorized access", NoUser)
    ELSE Response("is_admin_or_teacher", 200, "", user)

(* An admin-only route declared with Depends(is_admin_or_teacher) *)
DependsAdmin_WrongGate(token, access) ==
    LET cur == get_current_user(token, access, users, now)
    IN  IF cur.status # 200 THEN cur ELSE is_admin_or_teacher(cur.user)

(* Depends(is_admin): the dependency chain of an admin-only route *)
DependsAdmin(token, access) ==
    LET cur == get_current_user(token, access, users, now)
    IN  IF cur.status # 200 THEN cur ELSE is_admin(cur.user)

(* Depends(is_admin_or_teacher) *)
DependsAdminOrTeacher(token, access) ==
    LET cur == get_current_user(token, access, users, now)
    IN  IF cur.status # 200 THEN cur ELSE is_admin_or_teacher(cur.user)

(* Token strings a client can present: those a login returned, or made up *)
Presentable == issued \cup {Malformed, Forged}

(* The response of the last request answered, the bearer token the request *)
(* carried and the access token the response grants (a login's only).  A   *)
(* request that a dependency rejects is answered by that dependency.       *)
Reply(token, r) ==
    [tok |-> token, granted |-> NoToken, stage |-> r.stage, status |-> r.status,
     detail |-> r.detail]

Handler(token, status, detail) ==
    [tok |-> token, granted |-> NoToken, stage |-> "handler", status |-> status,
     detail |-> detail]

TokenResponse(access_token) ==
    [tok |-> NoToken, granted |-> access_token, stage |-> "handler", status |-> 200,
     detail |-> "bearer"]

-----------------------------------------------------------------------------
(* State after startup on an empty database: the seed admin exists *)

SeedAdmin == [id |-> 1, user_type |-> "admin", full_name |-> "Admin User",
              username |-> "admin", email |-> "admin@example.com",
              password_hash |-> hash_password("password123"), submitted_by |-> 1]

Idle == [user_id |-> 0, token |-> NoToken, expires_at |-> 0, previous |-> {}, prior |-> {}]

Init ==
    /\ users = {SeedAdmin}
    /\ tokens = {}
    /\ departments = {}
    /\ courses = {}
    /\ students = {}
    /\ attendance = {}
    /\ nextId = [users |-> 2, tokens |-> 1, departments |-> 1, courses |-> 1,
                 students |-> 1, attendance |-> 1]
    /\ now = 0
    /\ pending = [s \in Sessions |-> Idle]
    /\ issued = {}
    /\ superseded = {}
    /\ last = Handler(NoToken, 200, "startup")
    /\ proc = Process([SECRET_KEY |-> SECRET_KEY, ALGORITHM |-> ALGORITHM,
                       ACCESS_TOKEN_EXPIRE_MINUTES |-> "1"], "serving")

-----------------------------------------------------------------------------
(* The clock *)

Tick ==
    /\ now < MaxTime
    /\ now' = now + 1
    /\ UNCHANGED <<users, tokens, departments, courses, students, attendance,
                   nextId, pending, issued, superseded, last, proc>>

-----------------------------------------------------------------------------
(* POST /auth/token *)

(* authenticate answering an unknown username with its own error *)
authenticate_NamesTheUser(username, password, userRows) ==
    LET found == {u \in userRows : u.username = username}
    IN  IF found = {}
        THEN Response("handler", 404, "User not found", NoUser)
        ELSE IF \A u \in found : ~verify_password(password, u.password_hash)
        THEN Response("handler", 400, "Incorrect username or password", NoUser)
        ELSE Response("handler", 200, "", CHOOSE u \in found : TRUE)

(* Lines 32-34: look the user up and check the password *)
authenticate(username, password, userRows) ==
    LET found == {u \in userRows : u.username = username}
    IN  IF found = {} \/ (\A u \in found : ~verify_password(password, u.password_hash))
        THEN Response("handler", 400, "Incorrect username or password", NoUser)
        ELSE Response("handler", 200, "", CHOOSE u \in found : TRUE)

(* Lines 32-43: authenticate, build the token and the new row, read the    *)
(* user's existing rows.  Session slots are interchangeable: a login takes *)
(* the lowest free one.                                                    *)
LoginRead(s, username, password) ==
    /\ pending[s] = Idle
    /\ \A other \in Sessions : other < s => pending[other] # Idle
    /\ LET auth == authenticate(username, password, users)
           user == auth.user
           access_token == create_access_token(
               [user_id |-> user.id, username |-> user.username,
                user_type |-> user.user_type], now)
       IN  IF auth.status # 200
           THEN /\ last' = Reply(NoToken, auth)
                /\ UNCHANGED pending
           ELSE /\ nextId.tokens <= MaxTokenId
                /\ pending' = [pending EXCEPT ![s] =
                      [user_id |-> user.id, token |-> access_token,
                       expires_at |-> now + ACCESS_TOKEN_EXPIRE_MINUTES,
                       previous |-> {r \in tokens : r.user_id = user.id},
                       prior |-> {t \in issued : t.user_id = user.id}]]
                /\ UNCHANGED last
    /\ UNCHANGED <<users, tokens, departments, courses, students, attendance,
                   nextId, now, issued, superseded>>

(* The login committing the deletion of the rows it read before the insert *)
LoginCommit_TwoCommits(s) ==
    /\ pending[s] # Idle
    /\ IF pending[s].previous \cap tokens # {}
       THEN /\ tokens' = tokens \ pending[s].previous
            /\ UNCHANGED <<pending, nextId, issued, superseded, last>>
       ELSE /\ pending' = [pending EXCEPT ![s] = Idle]
            /\ IF \E u \in users : u.id = pending[s].user_id
               THEN /\ tokens' = tokens \cup
                         {[token_id |-> nextId.tokens, access_token |-> pending[s].token,
                           user_id |-> pending[s].user_id,
                           expires_at |-> pending[s].expires_at]}
                    /\ nextId' = [nextId EXCEPT !.tokens = @ + 1]
                    /\ issued' = issued \cup {pending[s].token}
                    /\ superseded' = superseded \cup pending[s].prior
                    /\ last' = TokenResponse(pending[s].token)
               ELSE /\ last' = Handler(NoToken, 500, "Internal Server Error")
                    /\ UNCHANGED <<tokens, nextId, issued, superseded>>
    /\ UNCHANGED <<users, departments, courses, students, attendance, now>>

(* Lines 44-50: delete the rows read, insert the new row, commit, respond.  *)
(* The insert fails on the foreign key when the user was deleted meanwhile. *)
LoginCommit(s) ==
    /\ pending[s] # Idle
    /\ pending' = [pending EXCEPT ![s] = Idle]
    /\ IF \E u \in users : u.id = pending[s].user_id
       THEN /\ tokens' = (tokens \ pending[s].previous) \cup
                 {[token_id |-> nextId.tokens, access_token |-> pending[s].token,
                   user_id |-> pending[s].user_id, expires_at |-> pending[s].expires_at]}
            /\ nextId' = [nextId EXCEPT !.tokens = @ + 1]
            /\ issued' = issued \cup {pending[s].token}
            /\ superseded' = superseded \cup pending[s].prior
            /\ last' = TokenResponse(pending[s].token)
       ELSE /\ last' = Handler(NoToken, 500, "Internal Server Error")
            /\ UNCHANGED <<tokens, nextId, issued, superseded>>
    /\ UNCHANGED <<users, departments, courses, students, attendance, now>>

-----------------------------------------------------------------------------
(* Rows that reference a user through submitted_by (foreign keys to users.id) *)

ReferencedUser(id) ==
    \/ \E u \in users : u.id # id /\ u.submitted_by = id
    \/ \E d \in departments : d.submitted_by = id
    \/ \E c \in courses : c.submitted_by = id
    \/ \E st \in students : st.submitted_by = id
    \/ \E a \in attendance : a.submitted_by = id

(* exclude_unset merge of one field *)
Merge(old, new) == IF new = Unset THEN old ELSE new

-----------------------------------------------------------------------------
(* /user routes *)

(* POST /user/create-user.  hash_password raises on a missing password and  *)
(* the unique constraint on email raises at commit: both end the request    *)
(* with 500 and nothing written.                                            *)
create_user(token, access, user) ==
    LET current == DependsAdmin(token, access)
    IN  /\ UNCHANGED <<tokens, departments, courses, students, attendance,
                       now, pending, issued, superseded>>
        /\ IF current.status # 200
           THEN /\ last' = Reply(token, current)
                /\ UNCHANGED <<users, nextId>>
           ELSE IF \E u \in users : u.username = user.username
           THEN /\ last' = Handler(token, 409, "User already exists.")
                /\ UNCHANGED <<users, nextId>>
           ELSE IF user.password = NoPassword \/ (\E u \in users : u.email = user.email)
           THEN /\ last' = Handler(token, 500, "Internal Server Error")
                /\ UNCHANGED <<users, nextId>>
           ELSE /\ nextId.users <= MaxUserId
                /\ users' = users \cup
                     {[id |-> nextId.users, user_type |-> user.user_type,
                       full_name |-> user.full_name, username |-> user.username,
                       email |-> user.email,
                       password_hash |-> hash_password(user.password),
                       submitted_by |-> current.user.id]}
                /\ nextId' = [nextId EXCEPT !.users = @ + 1]
                /\ last' = Handler(token, 200, "")

(* PUT /user/{user_id}.  A username or email another row holds violates the *)
(* unique constraint at commit (500, nothing written).                      *)
update_user(token, access, user_id, user_update) ==
    LET current == DependsAdmin(token, access)
        found == {u \in users : u.id = user_id}
    IN  /\ UNCHANGED <<tokens, departments, courses, students, attendance,
                       nextId, now, pending, issued, superseded>>
        /\ IF current.status # 200
           THEN /\ last' = Reply(token, current)
                /\ UNCHANGED users
           ELSE IF found = {}
           THEN /\ last' = Handler(token, 404, "User not found")
                /\ UNCHANGED users
           ELSE LET user == CHOOSE u \in found : TRUE
                    updated == [user EXCEPT
                        !.user_type = Merge(@, user_update.user_type),
                        !.full_name = Merge(@, user_update.full_name),
                        !.username = Merge(@, user_update.username),
                        !.email = Merge(@, user_update.email),
                        !.submitted_by = current.user.id]
                IN  IF \E o \in users \ {user} :
                          o.username = updated.username \/ o.email = updated.email
                    THEN /\ last' = Handler(token, 500, "Internal Server Error")
                         /\ UNCHANGED users
                    ELSE /\ users' = (users \ {user}) \cup {updated}
                         /\ last' = Handler(token, 200, "")

(* DELETE /user/{user_id}.  The ORM sets tokens.user_id of the user's token *)
(* rows to NULL before deleting the user; a row that references the user    *)
(* through a NOT NULL submitted_by makes the delete fail (500).  A user row *)
(* that references itself is its own created_users member: whether the      *)
(* flush deletes it or raises is left open, both outcomes are modelled.     *)
delete_user(token, access, user_id) ==
    LET current == DependsAdmin(token, access)
        found == {u \in users : u.id = user_id}
    IN  /\ UNCHANGED <<departments, courses, students, attendance,
                       nextId, now, pending, issued, superseded>>
        /\ IF current.status # 200
           THEN /\ last' = Reply(token, current)
                /\ UNCHANGED <<users, tokens>>
           ELSE IF found = {}
           THEN /\ last' = Handler(token, 404, "User not found")
                /\ UNCHANGED <<users, tokens>>
           ELSE IF ReferencedUser(user_id)
           THEN /\ last' = Handler(token, 500, "Internal Server Error")
                /\ UNCHANGED <<users, tokens>>
           ELSE \/ /\ users' = users \ found
                   /\ tokens' = {IF r.user_id = user_id THEN [r EXCEPT !.user_id = NULL] ELSE r
                                 : r \in tokens}
                   /\ last' = Handler(token, 200, "User deleted successfully")
                \/ /\ \E u \in found : u.submitted_by = u.id
                   /\ last' = Handler(token, 500, "Internal Server Error")
                   /\ UNCHANGED <<users, tokens>>

-----------------------------------------------------------------------------
(* /department routes *)

(* POST /department/create_department *)
create_department(token, access, dept) ==
    LET current == DependsAdmin(token, access)
    IN  /\ UNCHANGED <<users, tokens, courses, students, attendance,
                       now, pending, issued, superseded>>
        /\ IF current.status # 200
           THEN /\ last' = Reply(token, current)
                /\ UNCHANGED <<departments, nextId>>
           ELSE IF \E d \in departments : d.dept_name = dept.dept_name
           THEN /\ last' = Handler(token, 400, "Department already exists")
                /\ UNCHANGED <<departments, nextId>>
           ELSE /\ nextId.departments <= MaxDeptId
                /\ departments' = departments \cup
                     {[id |-> nextId.departments, dept_name |-> dept.dept_name,
                       submitted_by |-> current.user.id]}
                /\ nextId' = [nextId EXCEPT !.departments = @ + 1]
                /\ last' = Handler(token, 201, "")

(* PUT /department/update_dept *)
update_department(token, access, dept_id, dept) ==
    LET current == DependsAdmin(token, access)
        found == {d \in departments : d.id = dept_id}
    IN  /\ UNCHANGED <<users, tokens, courses, students, attendance,
                       nextId, now, pending, issued, superseded>>
        /\ IF current.status # 200
           THEN /\ last' = Reply(token, current)
                /\ UNCHANGED departments
           ELSE IF found = {}
           THEN /\ last' = Handler(token, 404, "Department not found")
                /\ UNCHANGED departments
           ELSE IF \E o \in departments \ found : o.dept_name = dept.dept_name
           THEN /\ last' = Handler(token, 500, "Internal Server Error")
                /\ UNCHANGED departments
           ELSE /\ departments' = (departments \ found) \cup
                     {[id |-> dept_id, dept_name |-> dept.dept_name,
                       submitted_by |-> current.user.id]}
                /\ last' = Handler(token, 200, "")

(* DELETE /department/delete_dept/{dept_id}.  Courses and students of the  *)
(* department would get a NULL department_id, which is NOT NULL: 500.      *)
delete_department(token, access, dept_id) ==
    LET current == DependsAdmin(token, access)
        found == {d \in departments : d.id = dept_id}
    IN  /\ UNCHANGED <<users, tokens, courses, students, attendance,
                       nextId, now, pending, issued, superseded>>
        /\ IF current.status # 200
           THEN /\ last' = Reply(token, current)
                /\ UNCHANGED departments
           ELSE IF found = {}
           THEN /\ last' = Handler(token, 404, "Department not found")
                /\ UNCHANGED departments
           ELSE IF \/ \E c \in courses : c.department_id = dept_id
                   \/ \E st \in students : st.department_id = dept_id
           THEN /\ last' = Handler(token, 500, "Internal Server Error")
                /\ UNCHANGED departments
           ELSE /\ departments' = departments \ found
                /\ last' = Handler(token, 200, "Department deleted successfully")

-----------------------------------------------------------------------------
(* /courses routes *)

(* POST /courses/create_course *)
create_course(token, access, course) ==
    LET current == DependsAdmin(token, access)
    IN  /\ UNCHANGED <<users, tokens, departments, students, attendance,
                       now, pending, issued, superseded>>
        /\ IF current.status # 200
           THEN /\ last' = Reply(token, current)
                /\ UNCHANGED <<courses, nextId>>
           ELSE IF ~ \E d \in departments : d.id = course.department_id
           THEN /\ last' = Handler(token, 404, "Department not found")
                /\ UNCHANGED <<courses, nextId>>
           ELSE IF \E c \in courses : c.course_name = course.course_name
           THEN /\ last' = Handler(token, 409, "Course already exists")
                /\ UNCHANGED <<courses, nextId>>
           ELSE IF \E c \in courses : c.class_name = course.class_name
           THEN /\ last' = Handler(token, 409, "Class already exists")
                /\ UNCHANGED <<courses, nextId>>
           ELSE /\ nextId.courses <= MaxCourseId
                /\ courses' = courses \cup
                     {[id |-> nextId.courses, course_name |-> course.course_name,
                       class_name |-> course.class_name, semester |-> course.semester,
                       lecture_hours |-> course.lecture_hours,
                       department_id |-> course.department_id,
                       submitted_by |-> current.user.id]}
                /\ nextId' = [nextId EXCEPT !.courses = @ + 1]
                /\ last' = Handler(token, 201, "")

(* PUT /courses/update_course/{course_id} *)
update_course(token, access, course_id, course) ==
    LET current == DependsAdmin(token, access)
        found == {c \in courses : c.id = course_id}
    IN  /\ UNCHANGED <<users, tokens, departments, students, attendance,
                       nextId, now, pending, issued, superseded>>
        /\ IF current.status # 200
           THEN /\ last' = Reply(token, current)
                /\ UNCHANGED courses
           ELSE IF found = {}
           THEN /\ last' = Handler(token, 404, "Course not found")
                /\ UNCHANGED courses
           ELSE LET db_course == CHOOSE c \in found : TRUE
                    updated == [db_course EXCEPT
                        !.course_name = Merge(@, course.course_name),
                        !.class_name = Merge(@, course.class_name),
                        !.semester = Merge(@, course.semester),
                        !.lecture_hours = Merge(@, course.lecture_hours),
                        !.submitted_by = current.user.id]
                IN  IF \E o \in courses \ found : o.course_name = updated.course_name
                    THEN /\ last' = Handler(token, 500, "Internal Server Error")
                         /\ UNCHANGED courses
                    ELSE /\ courses' = (courses \ found) \cup {updated}
                         /\ last' = Handler(token, 200, "")

(* DELETE /courses/delete_course/{course_id} *)
delete_course(token, access, course_id) ==
    LET current == DependsAdmin(token, access)
        found == {c \in courses : c.id = course_id}
    IN  /\ UNCHANGED <<users, tokens, departments, students, attendance,
                       nextId, now, pending, issued, superseded>>
        /\ IF current.status # 200
           THEN /\ last' = Reply(token, current)
                /\ UNCHANGED courses
           ELSE IF found = {}
           THEN /\ last' = Handler(token, 404, "Course not found")
                /\ UNCHANGED courses
           ELSE IF \E a \in attendance : a.course_id = course_id
           THEN /\ last' = Handler(token, 500, "Internal Server Error")
                /\ UNCHANGED courses
           ELSE /\ courses' = courses \ found
                /\ last' = Handler(token, 200, "Course deleted successfully")

-----------------------------------------------------------------------------
(* /student routes *)

(* POST /student/create-student *)
create_student(token, access, student) ==
    LET current == DependsAdmin(token, access)
    IN  /\ UNCHANGED <<users, tokens, departments, courses, attendance,
                       now, pending, issued, superseded>>
        /\ IF current.status # 200
           THEN /\ last' = Reply(token, current)
                /\ UNCHANGED <<students, nextId>>
           ELSE IF ~ \E d \in departments : d.id = student.department_id
           THEN /\ last' = Handler(token, 404, "Department not found")
                /\ UNCHANGED <<students, nextId>>
           ELSE /\ nextId.students <= MaxStudentId
                /\ students' = students \cup
                     {[id |-> nextId.students, full_name |-> student.full_name,
                       class_name |-> student.class_name,
                       department_id |-> student.department_id,
                       submitted_by |-> current.user.id]}
                /\ nextId' = [nextId EXCEPT !.students = @ + 1]
                /\ last' = Handler(token, 201, "")

(* PUT /student/{student_id}.  Line 125 assigns submitted_by on the request *)
(* body, a StudentModel, which has no such field: the assignment raises,    *)
(* the request ends with 500 before the commit and the session is closed    *)
(* with the pending field changes discarded.                                *)
update_student(token, access, student_id, student_update) ==
    LET current == DependsAdmin(token, access)
    IN  /\ UNCHANGED <<users, tokens, departments, courses, students, attendance,
                       nextId, now, pending, issued, superseded>>
        /\ IF current.status # 200
           THEN last' = Reply(token, current)
           ELSE IF ~ \E st \in students : st.id = student_id
           THEN last' = Handler(token, 404, "Student not found")
           ELSE IF ~ \E d \in departments : d.id = student_update.department_id
           THEN last' = Handler(token, 404, "Department not found")
           ELSE last' = Handler(token, 500, "Internal Server Error")

(* DELETE /student/delete-student/{student_id} *)
delete_student(token, access, student_id) ==
    LET current == DependsAdmin(token, access)
        found == {st \in students : st.id = student_id}
    IN  /\ UNCHANGED <<users, tokens, departments, courses, attendance,
                       nextId, now, pending, issued, superseded>>
        /\ IF current.status # 200
           THEN /\ last' = Reply(token, current)
                /\ UNCHANGED students
           ELSE IF found = {}
           THEN /\ last' = Handler(token, 404, "Student not found")
                /\ UNCHANGED students
           ELSE IF \E a \in attendance : a.student_id = student_id
           THEN /\ last' = Handler(token, 500, "Internal Server Error")
                /\ UNCHANGED students
           ELSE /\ students' = students \ found
                /\ last' = Handler(token, 200, "Student deleted successfully")

-----------------------------------------------------------------------------
(* /attendance routes *)

(* create_attendance without the lookup of the student *)
create_attendance_NoStudentCheck(token, access, attendance_log) ==
    LET current == DependsAdminOrTeacher(token, access)
    IN  /\ UNCHANGED <<users, tokens, departments, courses, students,
                       now, pending, issued, superseded>>
        /\ IF current.status # 200
           THEN /\ last' = Reply(token, current)
                /\ UNCHANGED <<attendance, nextId>>
           ELSE IF ~ \E c \in courses : c.id = attendance_log.course_id
           THEN /\ last' = Handler(token, 404, "Course not found.")
                /\ UNCHANGED <<attendance, nextId>>
           ELSE IF \E a \in attendance : /\ a.course_id = attendance_log.course_id
                                         /\ a.student_id = attendance_log.student_id
           THEN /\ last' = Handler(token, 409,
                             "Attendance log for the given course, student, and date already exists.")
                /\ UNCHANGED <<attendance, nextId>>
           ELSE /\ nextId.attendance <= MaxAttId
                /\ attendance' = attendance \cup
                     {[id |-> nextId.attendance, present |-> attendance_log.present,
                       student_id |-> attendance_log.student_id,
                       course_id |-> attendance_log.course_id,
                       submitted_by |-> current.user.id]}
                /\ nextId' = [nextId EXCEPT !.attendance = @ + 1]
                /\ last' = Handler(token, 200, "")

(* create_attendance without the lookup of an existing log for the pair *)
create_attendance_NoDuplicateCheck(token, access, attendance_log) ==
    LET current == DependsAdminOrTeacher(token, access)
    IN  /\ UNCHANGED <<users, tokens, departments, courses, students,
                       now, pending, issued, superseded>>
        /\ IF current.status # 200
           THEN /\ last' = Reply(token, current)
                /\ UNCHANGED <<attendance, nextId>>
           ELSE IF ~ \E c \in courses : c.id = attendance_log.course_id
           THEN /\ last' = Handler(token, 404, "Course not found.")
                /\ UNCHANGED <<attendance, nextId>>
           ELSE IF ~ \E st \in students : st.id = attendance_log.student_id
           THEN /\ last' = Handler(token, 404, "Student not found.")
                /\ UNCHANGED <<attendance, nextId>>
           ELSE /\ nextId.attendance <= MaxAttId
                /\ attendance' = attendance \cup
                     {[id |-> nextId.attendance, present |-> attendance_log.present,
                       student_id |-> attendance_log.student_id,
                       course_id |-> attendance_log.course_id,
                       submitted_by |-> current.user.id]}
                /\ nextId' = [nextId EXCEPT !.attendance = @ + 1]
                /\ last' = Handler(token, 200, "")

(* POST /attendance/create_attendance *)
create_attendance(token, access, attendance_log) ==
    LET current == DependsAdminOrTeacher(token, access)
    IN  /\ UNCHANGED <<users, tokens, departments, courses, students,
                       now, pending, issued, superseded>>
        /\ IF current.status # 200
           THEN /\ last' = Reply(token, current)
                /\ UNCHANGED <<attendance, nextId>>
           ELSE IF ~ \E c \in courses : c.id = attendance_log.course_id
           THEN /\ last' = Handler(token, 404, "Course not found.")
                /\ UNCHANGED <<attendance, nextId>>
           ELSE IF ~ \E st \in students : st.id = attendance_log.student_id
           THEN /\ last' = Handler(token, 404, "Student not found.")
                /\ UNCHANGED <<attendance, nextId>>
           ELSE IF \E a \in attendance : /\ a.course_id = attendance_log.course_id
                                         /\ a.student_id = attendance_log.student_id
           THEN /\ last' = Handler(token, 409,
                             "Attendance log for the given course, student, and date already exists.")
                /\ UNCHANGED <<attendance, nextId>>
           ELSE /\ nextId.attendance <= MaxAttId
                /\ attendance' = attendance \cup
                     {[id |-> nextId.attendance, present |-> attendance_log.present,
                       student_id |-> attendance_log.student_id,
                       course_id |-> attendance_log.course_id,
                       submitted_by |-> current.user.id]}
                /\ nextId' = [nextId EXCEPT !.attendance = @ + 1]
                /\ last' = Handler(token, 200, "")

-----------------------------------------------------------------------------
(* Request bodies and path parameters.  UserModel.password is optional;    *)
(* exclude_unset keeps the fields a request body does not name.            *)

(* user_type is any string, the empty one included; the form of the login  *)
(* route requires a username, so only named users are considered           *)
UserModels == [user_type : Roles \cup {""}, full_name : FullNames, username : Usernames,
               email : Emails, password : {"password123", NoPassword}]

NewUsers == {u \in UserModels : u.username = "bob" /\ u.email = "bob@example.com"
                                 /\ u.password = "password123"}

UserUpdates ==
    {u \in [user_type : Roles \cup {Unset}, full_name : FullNames \cup {Unset},
            username : Usernames \cup {Unset}, email : Emails \cup {Unset}] :
        Cardinality({f \in DOMAIN u : u[f] # Unset}) <= 1}

RoleUpdates == {u \in UserUpdates : u.user_type # Unset}

NewStaff == {u \in NewUsers : u.user_type # "admin"}

Demotions == {u \in RoleUpdates : u.user_type = "teacher"}

UserIds == 1..MaxUserId

DeptIds == 1..MaxDeptId

CourseIds == 1..MaxCourseId

StudentIds == 1..MaxStudentId

DepartmentModels == [dept_name : DeptNames]

CourseModels == [course_name : CourseNames, class_name : ClassNames, semester : Semesters,
                 lecture_hours : LectureHours, department_id : DeptIds]

CourseUpdates == [course_name : CourseNames \cup {Unset}, class_name : {Unset},
                  semester : {Unset}, lecture_hours : {Unset}]

StudentModels == [full_name : FullNames, class_name : ClassNames, department_id : DeptIds]

AttendanceModels == [present : {TRUE}, student_id : StudentIds, course_id : CourseIds]

-----------------------------------------------------------------------------
(* Requests: a route called with a bearer token from toks and a body (or   *)
(* path parameter) from the given set.  The row .first() returns for the   *)
(* token's user is any of the user's rows.                                 *)

PostCreateUser(toks, bodies) ==
    /\ Configured
    /\ UNCHANGED proc
    /\ \E token \in toks : \E access \in FirstToken(tokens, token.user_id) :
           \E user \in bodies : create_user(token, access, user)

PutUser(toks, bodies) ==
    /\ Configured
    /\ UNCHANGED proc
    /\ \E token \in toks : \E access \in FirstToken(tokens, token.user_id) :
           \E user_id \in UserIds, user_update \in bodies :
               update_user(token, access, user_id, user_update)

DeleteUser(toks) ==
    /\ Configured
    /\ UNCHANGED proc
    /\ \E token \in toks : \E access \in FirstToken(tokens, token.user_id) :
           \E user_id \in UserIds : delete_user(token, access, user_id)

PostCreateDepartment(toks) ==
    /\ Configured
    /\ UNCHANGED proc
    /\ \E token \in toks : \E access \in FirstToken(tokens, token.user_id) :
           \E dept \in DepartmentModels : create_department(token, access, dept)

PutDepartment(toks) ==
    /\ Configured
    /\ UNCHANGED proc
    /\ \E token \in toks : \E access \in FirstToken(tokens, token.user_id) :
           \E dept_id \in DeptIds, dept \in DepartmentModels :
               update_department(token, access, dept_id, dept)

DeleteDepartment(toks) ==
    /\ Configured
    /\ UNCHANGED proc
    /\ \E token \in toks : \E access \in FirstToken(tokens, token.user_id) :
           \E dept_id \in DeptIds : delete_department(token, access, dept_id)

PostCreateCourse(toks) ==
    /\ Configured
    /\ UNCHANGED proc
    /\ \E token \in toks : \E access \in FirstToken(tokens, token.user_id) :
           \E course \in CourseModels : create_course(token, access, course)

PutCourse(toks) ==
    /\ Configured
    /\ UNCHANGED proc
    /\ \E token \in toks : \E access \in FirstToken(tokens, token.user_id) :
           \E course_id \in CourseIds, course \in CourseUpdates :
               update_course(token, access, course_id, course)

DeleteCourse(toks) ==
    /\ Configured
    /\ UNCHANGED proc
    /\ \E token \in toks : \E access \in FirstToken(tokens, token.user_id) :
           \E course_id \in CourseIds : delete_course(token, access, course_id)

PostCreateStudent(toks) ==
    /\ Configured
    /\ UNCHANGED proc
    /\ \E token \in toks : \E access \in FirstToken(tokens, token.user_id) :
           \E student \in StudentModels : create_student(token, access, student)

PutStudent(toks) ==
    /\ Configured
    /\ UNCHANGED proc
    /\ \E token \in toks : \E access \in FirstToken(tokens, token.user_id) :
           \E student_id \in StudentIds, student \in StudentModels :
               update_student(token, access, student_id, student)

DeleteStudent(toks) ==
    /\ Configured
    /\ UNCHANGED proc
    /\ \E token \in toks : \E access \in FirstToken(tokens, token.user_id) :
           \E student_id \in StudentIds : delete_student(token, access, student_id)

PostCreateAttendance(toks) ==
    /\ Configured
    /\ UNCHANGED proc
    /\ \E token \in toks : \E access \in FirstToken(tokens, token.user_id) :
           \E a \in AttendanceModels : create_attendance(token, access, a)

PostToken(slots) ==
    /\ Configured
    /\ UNCHANGED proc
    /\ \E s \in slots, username \in Usernames, password \in Passwords :
           LoginRead(s, username, password)

PostTokenCommit(slots) ==
    /\ Configured
    /\ UNCHANGED proc
    /\ \E s \in slots : LoginCommit(s)

-----------------------------------------------------------------------------
(* Specifications *)

(* Authentication: logins in flight together, the clock, users created and *)
(* deleted, and requests to an admin-only and to an admin-or-teacher route *)
Next ==
    \/ Tick
    \/ PostToken(Sessions)
    \/ PostTokenCommit(Sessions)
    \/ PostCreateUser(Presentable, NewUsers)
    \/ DeleteUser(Presentable)
    \/ PostCreateAttendance(Presentable)

Spec == Init /\ [][Next]_vars

(* Every gated write route, one login at a time, the seed admin the only   *)
(* user that is ever an admin                                              *)
NextCrud ==
    \/ Tick
    \/ PostToken({1})
    \/ PostTokenCommit({1})
    \/ PostCreateUser(issued \cup {Forged}, NewStaff)
    \/ PutUser(issued \cup {Forged}, Demotions)
    \/ DeleteUser(issued \cup {Forged})
    \/ PostCreateDepartment(issued \cup {Forged})
    \/ PutDepartment(issued \cup {Forged})
    \/ DeleteDepartment(issued \cup {Forged})
    \/ PostCreateCourse(issued \cup {Forged})
    \/ PutCourse(issued \cup {Forged})
    \/ DeleteCourse(issued \cup {Forged})
    \/ PostCreateStudent(issued \cup {Forged})
    \/ PutStudent(issued \cup {Forged})
    \/ DeleteStudent(issued \cup {Forged})
    \/ PostCreateAttendance(issued \cup {Forged})

SpecCrud == Init /\ [][NextCrud]_vars

-----------------------------------------------------------------------------
(* Properties *)

RowsOf(user_id) == {r \in tokens : r.user_id = user_id}

Unauthenticated == Response("verify_token", 401, "Invalid or expired Token", NoUser)

Complete(token) == token.user_id # 0 /\ token.username # "" /\ token.user_type # ""

(* The outcomes get_current_user can have for a token in the current state *)
Outcomes(token) ==
    {get_current_user(token, access, users, now) :
        access \in FirstToken(tokens, token.user_id)}

(* C1: the token store never holds two rows for the same user, also when   *)
(* logins for that user are in flight together.                            *)
C1_OneTokenPerUser == \A user_id \in UserIds : Cardinality(RowsOf(user_id)) <= 1

(* C2: once a user has logged in a second time, the store holds exactly    *)
(* one row for the user, the second login's, and the first login's token   *)
(* fails validation with 401 from then on.                                 *)
C2_SecondLoginSupersedes ==
    /\ \A token \in superseded : \A r \in Outcomes(token) : r.status = 401
    /\ (last.granted # NoToken /\ \E token \in superseded : token.user_id = last.granted.user_id)
          => \A r \in RowsOf(last.granted.user_id) : r.access_token = last.granted

(* C3: a token presented after its expiry is answered 401 by verify_token, *)
(* whatever its signature and whether or not it is still the stored row;   *)
(* no request carrying an expired token gets any other answer.             *)
C3_ExpiredTokenRejected ==
    /\ [](\A token \in Presentable : token.exp < now => Outcomes(token) = {Unauthenticated})
    /\ [][(last' # last /\ last'.tok # NoToken /\ last'.tok.exp < now)
             => (last'.stage = "verify_token" /\ last'.status = 401)]_vars

C3_Witness ==
    /\ last.tok.key = SECRET_KEY
    /\ last.tok.exp < now
    /\ \E r \in RowsOf(last.tok.user_id) : r.access_token = last.tok
    /\ last.stage = "verify_token"
    /\ last.status = 401

(* C4: a correctly signed, unexpired token with complete claims whose user *)
(* has no token row is answered 401 by verify_token.  Stated for the       *)
(* tokens of users created through the API, whose deletion does not depend *)
(* on how a self-referencing row is flushed.                               *)
C4_NoStoredTokenUnauthorized ==
    \A token \in Presentable :
        (/\ ~JWTError(token, now) /\ Complete(token)
         /\ token.user_id # SeedAdmin.id
         /\ RowsOf(token.user_id) = {})
            => \A r \in Outcomes(token) : r.status = 401

(* C5: an unexpired token of a user that an admin has deleted is answered  *)
(* 403, and the unexpired stored tokens of the users that exist still      *)
(* validate.  The deleted users are those created through the API.         *)
C5_DeletedUserForbidden ==
    \A token \in issued :
        (token.exp >= now /\ token.user_id # SeedAdmin.id) =>
            IF \E u \in users : u.id = token.user_id
            THEN (\E row \in RowsOf(token.user_id) : row.access_token = token)
                    => \E r \in Outcomes(token) : r.status = 200
            ELSE \A r \in Outcomes(token) : r.status = 403

(* C6: is_admin returns an admin unchanged and answers every other role    *)
(* with 403 and no identity.                                               *)
C6_AdminGate ==
    /\ \A u \in users :
          is_admin(u) = IF u.user_type = "admin"
                        THEN Response("is_admin", 200, "", u)
                        ELSE Response("is_admin", 403, "Unauthorized Access!", NoUser)
    /\ last.stage = "is_admin"
          => (last.status = 403 /\ last.detail = "Unauthorized Access!")

C6_Witness ==
    /\ last.stage = "is_admin"
    /\ last.status = 403
    /\ \E u \in users : u.id = last.tok.user_id /\ u.user_type = "teacher"
    /\ \E u \in users : u.user_type = "admin"

(* C7: is_admin_or_teacher returns an admin or a teacher unchanged and     *)
(* answers every other role with 403.                                      *)
C7_AdminOrTeacherGate ==
    /\ \A u \in users :
          is_admin_or_teacher(u).status = IF u.user_type \in {"admin", "teacher"} THEN 200 ELSE 403
    /\ last.stage = "is_admin_or_teacher" => last.status = 403

(* C8: the user, department, course and student tables change only in a    *)
(* request whose token validates to an admin, an attendance row is created *)
(* only in a request whose token validates to an admin or a teacher, and a *)
(* request that a dependency rejects changes no table.                     *)
ValidatesAs(token, roles) ==
    \E r \in Outcomes(token) : r.status = 200 /\ r.user.user_type \in roles

C8_GatedWrites ==
    [][/\ <<users, departments, courses, students>>' # <<users, departments, courses, students>>
             => ValidatesAs(last'.tok, {"admin"})
       /\ attendance' # attendance => ValidatesAs(last'.tok, {"admin", "teacher"})
       /\ last'.stage # "handler" => tables' = tables]_vars

C8_Witness ==
    /\ \E a \in attendance : \E u \in users :
          u.id = a.submitted_by /\ u.user_type = "teacher"
    /\ last.stage = "is_admin"
    /\ last.status = 403
    /\ students # {}

(* C9: an unknown username and a wrong password for a known username get   *)
(* the same login response, and a failed login leaves the token store as   *)
(* it was.                                                                 *)
LoginFailed(response) ==
    response.status = 400 /\ response.detail = "Incorrect username or password"

C9_GenericLoginFailure ==
    /\ [](\A unknown \in Usernames, known \in Usernames, p1 \in Passwords, p2 \in Passwords :
            (/\ \A u \in users : u.username # unknown
             /\ \E u \in users : u.username = known /\ ~verify_password(p2, u.password_hash))
                => authenticate(unknown, p1, users) = authenticate(known, p2, users))
    /\ [](last.tok = NoToken /\ last.status \notin {200, 500} => LoginFailed(last))
    /\ [][LoginFailed(last') => tokens' = tokens]_vars

C9_Witness ==
    /\ LoginFailed(last)
    /\ \E u \in users : \E row \in RowsOf(u.id) :
          get_current_user(row.access_token, row, users, now).status = 200
    /\ \E unknown \in Usernames : \A u \in users : u.username # unknown

(* C10: a malformed or wrongly signed token is answered 401, with the same *)
(* response as an expired token and as a token that a later login          *)
(* superseded.                                                             *)
C10_UniformRejection ==
    \A token \in Presentable : \A access \in FirstToken(tokens, token.user_id) :
        LET r == get_current_user(token, access, users, now)
        IN  /\ token.key # SECRET_KEY => r = Unauthenticated
            /\ token.exp < now => r = Unauthenticated
            /\ (token.key = SECRET_KEY /\ token.exp >= now /\ Complete(token)
                /\ access # NoRow /\ access.access_token # token) => r = Unauthenticated

C10_Witness ==
    /\ last.tok.key # SECRET_KEY
    /\ last.tok # NoToken
    /\ last.status = 401
    /\ last.detail = "Invalid or expired Token"
    /\ \E token \in issued : token.exp < now
    /\ \E token \in issued : \E row \in RowsOf(token.user_id) :
          token.exp >= now /\ row.access_token # token

(* C11: a create-department request of an admin is answered 409 and adds   *)
(* no row when the name exists, and otherwise is answered 201 and adds     *)
(* exactly one row, submitted_by the admin; department names stay unique.  *)
AdminRequests ==
    {<<token, access>> \in Presentable \X (tokens \cup {NoRow}) :
        /\ access \in FirstToken(tokens, token.user_id)
        /\ DependsAdmin(token, access).status = 200}

C11_CreateDepartment ==
    /\ [](\A d1 \in departments, d2 \in departments :
            d1.dept_name = d2.dept_name => d1 = d2)
    /\ [][\A req \in AdminRequests, dept \in DepartmentModels :
            create_department(req[1], req[2], dept) =>
                IF \E d \in departments : d.dept_name = dept.dept_name
                THEN last'.status = 409 /\ departments' = departments
                ELSE /\ last'.status = 201
                     /\ \E d \in departments' \ departments :
                           /\ departments' = departments \cup {d}
                           /\ d.dept_name = dept.dept_name
                           /\ d.submitted_by = DependsAdmin(req[1], req[2]).user.id]_vars

-----------------------------------------------------------------------------
(* create_first_user: nothing is done when a user named "admin" exists;    *)
(* otherwise the seed row is inserted with submitted_by 1.  An insert that *)
(* the database refuses (email held by another row, no user with id 1) is  *)
(* rolled back by the except clause.                                       *)
create_first_user ==
    IF \E u \in users : u.username = "admin"
    THEN UNCHANGED <<users, nextId>>
    ELSE IF \/ \E u \in users : u.email = SeedAdmin.email
            \/ ~ \E u \in users : u.id = SeedAdmin.submitted_by
    THEN UNCHANGED <<users, nextId>>
    ELSE /\ nextId.users <= MaxUserId
         /\ users' = users \cup {[SeedAdmin EXCEPT !.id = nextId.users]}
         /\ nextId' = [nextId EXCEPT !.users = @ + 1]

(* The process is started again on the database as it is: the requests in  *)
(* flight are gone and the seeding step runs.                              *)
lifespan ==
    /\ Configured
    /\ UNCHANGED proc
    /\ create_first_user
    /\ pending' = [s \in Sessions |-> Idle]
    /\ last' = Handler(NoToken, 200, "startup")
    /\ UNCHANGED <<tokens, departments, courses, students, attendance,
                   now, issued, superseded>>

(* The user routes with every request body the schemas admit, one login    *)
(* at a time, and restarts of the process.                                 *)
NextUsers ==
    \/ Tick
    \/ PostToken({1})
    \/ PostTokenCommit({1})
    \/ PostCreateUser(issued, UserModels)
    \/ PutUser(issued, UserUpdates)
    \/ DeleteUser(issued)
    \/ lifespan

SpecUsers == Init /\ [][NextUsers]_vars

(* C12: a create-user request of an admin whose username or email an       *)
(* existing user holds is answered 409 and leaves the user table as it     *)
(* was; usernames and emails are unique in every reachable state.          *)
C12_CreateUserConflict ==
    /\ [](\A u1 \in users, u2 \in users :
            (u1.username = u2.username \/ u1.email = u2.email) => u1 = u2)
    /\ [][\A req \in AdminRequests, user \in UserModels :
            (/\ create_user(req[1], req[2], user)
             /\ \E u \in users : u.username = user.username \/ u.email = user.email)
                => (last'.status = 409 /\ users' = users)]_vars

(* C13: an attendance creation for a (course_id, student_id) pair that has *)
(* a log is answered 409 and adds no row, so there is at most one          *)
(* attendance row per pair.                                                *)
StaffRequests ==
    {<<token, access>> \in Presentable \X (tokens \cup {NoRow}) :
        /\ access \in FirstToken(tokens, token.user_id)
        /\ DependsAdminOrTeacher(token, access).status = 200}

C13_OneLogPerPair ==
    /\ [](\A a1 \in attendance, a2 \in attendance :
            (a1.course_id = a2.course_id /\ a1.student_id = a2.student_id) => a1 = a2)
    /\ [][\A req \in StaffRequests, log \in AttendanceModels :
            (/\ create_attendance(req[1], req[2], log)
             /\ \E a \in attendance : /\ a.course_id = log.course_id
                                      /\ a.student_id = log.student_id)
                => (last'.status = 409 /\ attendance' = attendance)]_vars

C13_Witness ==
    /\ last.stage = "handler"
    /\ last.status = 409
    /\ last.detail = "Attendance log for the given course, student, and date already exists."
    /\ Cardinality(attendance) = 1

(* C14: an attendance creation whose course_id or student_id references no *)
(* row is answered 404 and adds no row; every attendance row added         *)
(* references a course and a student present when it is created.           *)
C14_AttendanceReferences ==
    /\ [][\A req \in StaffRequests, log \in AttendanceModels :
            (/\ create_attendance(req[1], req[2], log)
             /\ \/ ~ \E c \in courses : c.id = log.course_id
                \/ ~ \E st \in students : st.id = log.student_id)
                => (last'.status = 404 /\ attendance' = attendance)]_vars
    /\ [][\A a \in attendance' \ attendance :
            /\ \E c \in courses : c.id = a.course_id
            /\ \E st \in students : st.id = a.student_id]_vars

C14_Witness ==
    /\ last.stage = "handler"
    /\ last.status = 404
    /\ last.detail = "Student not found."
    /\ courses # {}
    /\ students = {}
    /\ attendance = {}

(* C15: an update of an existing user, department, course or student by an *)
(* admin is answered 200 and sets exactly the supplied fields; the fields  *)
(* not supplied and every other row keep their values (submitted_by        *)
(* aside).  An update that would break a unique constraint is left out.    *)
Updated(rows, rowsAfter, id, body) ==
    \E old \in rows, new \in rowsAfter :
        /\ old.id = id /\ new.id = id
        /\ rowsAfter \ {new} = rows \ {old}
        /\ \A f \in DOMAIN old \ {"submitted_by"} :
              new[f] = IF f \in DOMAIN body THEN Merge(old[f], body[f]) ELSE old[f]

C15_PartialUpdate ==
    [][\A req \in AdminRequests :
        /\ \A user_id \in UserIds, user_update \in UserUpdates :
              (/\ update_user(req[1], req[2], user_id, user_update)
               /\ \E u \in users : u.id = user_id
               /\ ~ \E o \in users : /\ o.id # user_id
                                     /\ o.username = user_update.username
                                        \/ o.email = user_update.email)
                  => (last'.status = 200 /\ Updated(users, users', user_id, user_update))
        /\ \A dept_id \in DeptIds, dept \in DepartmentModels :
              (/\ update_department(req[1], req[2], dept_id, dept)
               /\ \E d \in departments : d.id = dept_id
               /\ ~ \E o \in departments : o.id # dept_id /\ o.dept_name = dept.dept_name)
                  => (last'.status = 200 /\ Updated(departments, departments', dept_id, dept))
        /\ \A course_id \in CourseIds, course \in CourseUpdates :
              (/\ update_course(req[1], req[2], course_id, course)
               /\ \E c \in courses : c.id = course_id
               /\ ~ \E o \in courses : o.id # course_id /\ o.course_name = course.course_name)
                  => (last'.status = 200 /\ Updated(courses, courses', course_id, course))
        /\ \A student_id \in StudentIds, student_update \in StudentModels :
              (/\ update_student(req[1], req[2], student_id, student_update)
               /\ \E st \in students : st.id = student_id
               /\ \E d \in departments : d.id = student_update.department_id)
                  => (/\ last'.status = 200
                      /\ Updated(students, students', student_id, student_update))]_vars

(* C16: the seeding step creates the seed admin exactly when no user with  *)
(* the admin role is present, changes nothing when an admin is present,    *)
(* and never leaves more than one seed admin account.                      *)
SeedAccounts == {u \in users : u.username = SeedAdmin.username}

C16_SeedingIdempotent ==
    /\ [](Cardinality(SeedAccounts) <= 1)
    /\ [][lifespan =>
            IF \E u \in users : u.user_type = "admin"
            THEN users' = users
            ELSE \E u \in users' \ users :
                    /\ users' = users \cup {u}
                    /\ u.username = SeedAdmin.username
                    /\ u.user_type = "admin"]_vars

-----------------------------------------------------------------------------
(* Start of the process under any environment.  auth.py reads the settings *)
(* at import: only int() of a missing ACCESS_TOKEN_EXPIRE_MINUTES raises.  *)
(* The database is the one an earlier run seeded.                          *)
InitBoot ==
    /\ users = {SeedAdmin}
    /\ tokens = {}
    /\ departments = {}
    /\ courses = {}
    /\ students = {}
    /\ attendance = {}
    /\ nextId = [users |-> 2, tokens |-> 1, departments |-> 1, courses |-> 1,
                 students |-> 1, attendance |-> 1]
    /\ now = 0
    /\ pending = [s \in Sessions |-> Idle]
    /\ issued = {}
    /\ superseded = {}
    /\ last = Handler(NoToken, 200, "")
    /\ proc \in {Process(e, "starting") : e \in Environments}

import_auth ==
    /\ proc.state = "starting"
    /\ proc' = [proc EXCEPT !.state =
                  IF proc.ACCESS_TOKEN_EXPIRE_MINUTES = None THEN "crashed" ELSE "serving"]
    /\ last' = Handler(NoToken, 200, "startup")
    /\ UNCHANGED <<users, tokens, departments, courses, students, attendance,
                   nextId, now, pending, issued, superseded>>

Unconfigured ==
    /\ proc.state = "serving"
    /\ proc.SECRET_KEY = None \/ proc.ALGORITHM = None

(* POST /auth/token without a secret or an algorithm: the credentials are  *)
(* checked as always, then jwt.encode raises and nothing is stored.        *)
LoginUnconfigured ==
    /\ Unconfigured
    /\ \E username \in Usernames, password \in Passwords :
          LET auth == authenticate(username, password, users)
          IN  last' = IF auth.status # 200
                      THEN Reply(NoToken, auth)
                      ELSE Handler(NoToken, 500, "Internal Server Error")
    /\ UNCHANGED <<users, tokens, departments, courses, students, attendance,
                   nextId, now, pending, issued, superseded, proc>>

(* A protected route without a secret or an algorithm: jwt.decode raises,  *)
(* a JWTError (401) or another error of the library (500).                 *)
RequestUnconfigured ==
    /\ Unconfigured
    /\ \E token \in Presentable :
          \/ last' = Reply(token, Response("verify_token", 401,
                                           "Invalid or expired Token", NoUser))
          \/ last' = Reply(token, Response("verify_token", 500,
                                           "Internal Server Error", NoUser))
    /\ UNCHANGED <<users, tokens, departments, courses, students, attendance,
                   nextId, now, pending, issued, superseded, proc>>

NextBoot ==
    \/ import_auth
    \/ LoginUnconfigured
    \/ RequestUnconfigured
    \/ Tick
    \/ PostToken({1})
    \/ PostTokenCommit({1})
    \/ PostCreateUser(Presentable, NewStaff)
    \/ DeleteUser(Presentable)

SpecBoot == InitBoot /\ [][NextBoot]_vars

(* C17: with the signing secret or the algorithm absent the process fails  *)
(* at startup; it never serves requests without them.                      *)
C17_FailFast ==
    (proc.SECRET_KEY = None \/ proc.ALGORITHM = None) => proc.state # "serving"

(* C18: while a user who holds a token row logs in again, the store never  *)
(* shows zero rows for that user: the commit of the login removes the old  *)
(* row and adds the new one in one step.                                   *)
C18_NoEmptyWindow ==
    /\ [](\A s \in Sessions :
            (/\ pending[s] # Idle
             /\ pending[s].previous # {}
             /\ \E u \in users : u.id = pending[s].user_id)
                => RowsOf(pending[s].user_id) # {})
    /\ [][\A s \in Sessions :
            (/\ LoginCommit(s)
             /\ RowsOf(pending[s].user_id) # {}
             /\ \E u \in users : u.id = pending[s].user_id)
                => \E r \in tokens' : /\ r.user_id = pending[s].user_id
                                      /\ r.access_token = pending[s].token]_vars

C18_Witness ==
    /\ last.granted # NoToken
    /\ \E t \in superseded : t.user_id = last.granted.user_id /\ t # last.granted
    /\ \A r \in RowsOf(last.granted.user_id) : r.access_token = last.granted
    /\ RowsOf(last.granted.user_id) # {}
    /\ \E s \in Sessions : pending[s] # Idle /\ pending[s].user_id = last.granted.user_id

(* C19: every row a route creates or updates carries in submitted_by the   *)
(* id of the user the request's token validates to, and an admin's update  *)
(* of an existing student is such a write.                                 *)
WrittenBy(rows, rowsAfter, token) ==
    \A r \in rowsAfter \ rows :
        \E o \in Outcomes(token) : o.status = 200 /\ r.submitted_by = o.user.id

C20_IssuedTokenValidates ==
    (last.granted # NoToken /\ last.granted.exp >= now) =>
        \A o \in Outcomes(last.granted) :
            /\ o.status = 200
            /\ o.user \in users
            /\ o.user.id = last.granted.user_id

(* C21: the admin gate decides on the role stored in the user's record: a  *)
(* still valid token issued to an admin whose record now holds another     *)
(* role is answered 403 on an admin-only route, and no request carrying    *)
(* such a token changes the user table.                                    *)
C21_RoleFromRecord ==
    /\ [](\A token \in issued : \A access \in FirstToken(tokens, token.user_id) :
            (/\ token.user_type = "admin"
             /\ verify_token(token, access, now).status = 200
             /\ \E u \in users : u.id = token.user_id /\ u.user_type # "admin")
                => DependsAdmin(token, access) =
                      Response("is_admin", 403, "Unauthorized Access!", NoUser))
    /\ [][(users' # users /\ last'.tok # NoToken)
             => \E u \in users : u.id = last'.tok.user_id /\ u.user_type = "admin"]_vars

C21_Witness ==
    /\ last.tok.user_type = "admin"
    /\ last.tok.user_id # SeedAdmin.id
    /\ last.stage = "is_admin"
    /\ last.status = 403
    /\ \E u \in users : u.id = last.tok.user_id /\ u.user_type # "admin"
    /\ \E r \in RowsOf(last.tok.user_id) : r.access_token = last.tok
    /\ \E u \in users : u.id = SeedAdmin.id /\ u.user_type = "admin"

====
